---------------------------- MODULE Spec2Model ----------------------------
(***************************************************************************)
(* A model of the two batch scripts of the documentation pipeline:         *)
(*   scripts/process_docs.py              (the Extractor)                  *)
(*   scripts/generate_hyperliquid_docs.py (the Renderer)                   *)
(* Python strings are TLA+ strings; the string methods and the regular     *)
(* expressions the scripts use are operators that work character by        *)
(* character.  Positions are 1-based; a search that finds nothing gives 0. *)
(* The strings of the model are over the code points 1..255.               *)
(***************************************************************************)
EXTENDS Integers, Sequences, FiniteSets, TLC

VARIABLES
    pc,           \* position of the running script
    \* Renderer (generate_hyperliquid_docs.py)
    url,          \* get_page_category: its argument
    category,     \* get_page_category: its result
    content,      \* clean_content: its argument
    cleaned,      \* clean_content: its result
    headers,      \* format_table: its arguments
    rows,
    table_md,     \* format_table: its result
    pages,        \* generate_documentation: data['pages']
    toc_lines,    \* generate_toc: its list toc_lines
    md_lines,     \* generate_documentation: its list md_lines
    \* Extractor (process_docs.py)
    html,         \* the document handed to the extract_* functions
    sections,     \* extract_sections: its result
    code_blocks,  \* extract_code_blocks: its result
    tables,       \* extract_tables: its result
    page_md,      \* process_page on the extracted record
    listing,      \* os.listdir(temp_dir)
    pos,          \* how many names of the listing the loop has taken
    out_pages,    \* the module-level list pages
    output,       \* the module-level dict output
    text,         \* TextExtractor.text
    in_script,    \* TextExtractor.in_script
    in_style,     \* TextExtractor.in_style
    fed,          \* the parser events delivered to the TextExtractor so far
    result        \* TextExtractor.get_text()

catVars   == <<url, category>>
cleanVars == <<content, cleaned>>
tableVars == <<headers, rows, table_md>>
docVars   == <<pages, toc_lines, md_lines>>
htmlVars  == <<html, sections, code_blocks, tables, page_md>>
batchVars == <<listing, pos, out_pages, output>>
textVars  == <<text, in_script, in_style, fed, result>>

vars == <<pc, catVars, cleanVars, tableVars, docVars, htmlVars, batchVars, textVars>>

\* The parts of the state a script does not touch
CategoryIdle == url = "" /\ category = ""
CleanIdle    == content = "" /\ cleaned = ""
TableIdle    == headers = <<>> /\ rows = <<>> /\ table_md = ""
DocIdle      == pages = <<>> /\ toc_lines = <<>> /\ md_lines = <<>>
HtmlIdle     == html = "" /\ sections = <<>> /\ code_blocks = <<>> /\ tables = <<>> /\ page_md = ""
BatchIdle    == listing = <<>> /\ pos = 0 /\ out_pages = <<>> /\ output = <<>>
TextIdle     == text = <<>> /\ in_script = FALSE /\ in_style = FALSE /\ fed = <<>> /\ result = ""

-----------------------------------------------------------------------------
(* Python str primitives *)

SetMin(S) == CHOOSE i \in S : \A j \in S : i <= j
SetMax(S) == CHOOSE i \in S : \A j \in S : j <= i

Char(s, i) == SubSeq(s, i, i)

\* A string literal cannot hold a lone backquote
Backtick == SubSeq("`'", 1, 1)

\* The printable ASCII characters, space to tilde
Ascii == " !\"#$%&'()*+,-./0123456789:;<=>?@ABCDEFGHIJKLMNOPQRSTUVWXYZ[\\]^_"
         \o Backtick \o "abcdefghijklmnopqrstuvwxyz{|}~"

\* The characters U+0001..U+00FF in code point order: the character at
\* position n is chr(n)
CodePoints ==
    "" \o "\t\n" \o "" \o "\f\r" \o ""
    \o Ascii
    \o " ¡¢£¤¥¦§¨©ª«¬­®¯°±²³´µ¶·¸¹º»¼½¾¿ÀÁÂÃÄÅÆÇÈÉÊËÌÍÎÏÐÑÒÓÔÕÖ×ØÙÚÛÜÝÞßàáâãäåæçèéêëìíîïðñòóôõö÷øùúûüýþÿ"

chr(n) == Char(CodePoints, n)

\* ord(c)
Ord(c) == CHOOSE n \in 1..Len(CodePoints) : chr(n) = c

\* s[from:] (1-based from)
Rest(s, from) == SubSeq(s, from, Len(s))

\* s.startswith(lit, i-1)
StartsAt(s, i, lit) ==
    /\ i >= 1
    /\ i + Len(lit) - 1 <= Len(s)
    /\ SubSeq(s, i, i + Len(lit) - 1) = lit

\* s.find(sub, from-1) + 1
find(s, sub, from) ==
    LET hits == {i \in from..(Len(s) - Len(sub) + 1) : StartsAt(s, i, sub)}
    IN  IF hits = {} THEN 0 ELSE SetMin(hits)

\* sub in s
Contains(s, sub) == find(s, sub, 1) # 0

\* s.endswith(suffix)
endswith(s, suffix) == StartsAt(s, Len(s) - Len(suffix) + 1, suffix)

RECURSIVE replace_from(_, _, _, _)
replace_from(s, old, new, i) ==
    LET k == find(s, old, i)
    IN  IF k = 0 THEN Rest(s, i)
        ELSE SubSeq(s, i, k - 1) \o new \o replace_from(s, old, new, k + Len(old))

\* s.replace(old, new), old non-empty: leftmost non-overlapping occurrences
replace(s, old, new) == replace_from(s, old, new, 1)

\* The characters c with c.isspace(): U+0009..U+000D, U+001C..U+0020,
\* U+0085 and U+00A0
Whitespace == {chr(n) : n \in (9..13) \cup (28..32) \cup {133, 160}}

\* s.strip()
strip(s) ==
    LET keep == {i \in 1..Len(s) : Char(s, i) \notin Whitespace}
    IN  IF keep = {} THEN "" ELSE SubSeq(s, SetMin(keep), SetMax(keep))

RECURSIVE Concat(_)
Concat(ss) == IF ss = <<>> THEN "" ELSE Head(ss) \o Concat(Tail(ss))

RECURSIVE join(_, _)
\* sep.join(ss)
join(sep, ss) ==
    IF ss = <<>> THEN ""
    ELSE IF Len(ss) = 1 THEN ss[1]
    ELSE ss[1] \o sep \o join(sep, Tail(ss))

\* All sequences over S of length at most n
SeqsUpTo(S, n) == UNION {[1..k -> S] : k \in 0..n}

-----------------------------------------------------------------------------
(* Renderer: get_page_category *)

base_url == "https://hyperliquid.gitbook.io/hyperliquid-docs"

\* The if/elif chain, in the order the code tests it.
Markers == <<
    <<"/about-hyperliquid/", "About Hyperliquid">>,
    <<"/onboarding/", "Onboarding">>,
    <<"/hypercore/", "HyperCore">>,
    <<"/hyperevm/", "HyperEVM">>,
    <<"/trading/", "Trading">>,
    <<"/validators/", "Validators">>,
    <<"/for-developers/api/", "API Documentation">>,
    <<"/for-developers/hyperevm/", "HyperEVM for Developers">>,
    <<"/for-developers/nodes", "Nodes">>,
    <<"/historical-data/", "Historical Data">>,
    <<"/risks/", "Risks">>,
    <<"/referrals/", "Referrals">>,
    <<"/points/", "Points">>,
    <<"/bug-bounty-program/", "Bug Bounty Program">>,
    <<"/audits/", "Audits">>,
    <<"/brand-kit/", "Brand Kit">>,
    <<"/hyperliquid-improvement-proposals-", "Hyperliquid Improvement Proposals (HIPs)">>
>>

get_page_category(u) ==
    LET hits == {k \in 1..Len(Markers) : Contains(u, Markers[k][1])}
    IN  IF hits = {} THEN "Other" ELSE Markers[SetMin(hits)][2]

\* URLs: base_url followed by at most MaxUrlPieces pieces, a piece being a
\* marker or a plain path fragment.
MaxUrlPieces == 2
UrlPieces == {Markers[k][1] : k \in 1..Len(Markers)} \cup {"/x", "x", "/"}
Urls == {base_url \o Concat(ps) : ps \in SeqsUpTo(UrlPieces, MaxUrlPieces)}

InitCategory ==
    /\ pc = "start"
    /\ url \in Urls
    /\ category = ""
    /\ CleanIdle /\ TableIdle /\ DocIdle /\ HtmlIdle /\ BatchIdle /\ TextIdle

Categorize ==
    /\ pc = "start"
    /\ category' = get_page_category(url)
    /\ pc' = "done"
    /\ UNCHANGED <<url, cleanVars, tableVars, docVars, htmlVars, batchVars, textVars>>

NextCategory == Categorize

SpecCategory == InitCategory /\ [][NextCategory]_vars

-----------------------------------------------------------------------------
(* Renderer: clean_content *)

\* Where a match of  A.*?B  (followed by .* when tail) that starts at a ends
\* (the position after it), 0 when there is none.  '.' does not match "\n",
\* so B must be found before the line of A ends.
span_end(s, a, A, B, tail) ==
    LET p  == a + Len(A)
        b  == find(s, B, p)
        nl == find(s, "\n", p)
    IN  IF ~StartsAt(s, a, A) \/ b = 0 \/ (nl # 0 /\ nl < b) THEN 0
        ELSE IF ~tail THEN b + Len(B)
        ELSE LET eol == find(s, "\n", b + Len(B))
             IN  IF eol = 0 THEN Len(s) + 1 ELSE eol

RECURSIVE sub_span(_, _, _, _, _)
\* re.sub(A + ".*?" + B [+ ".*"], "", s), scanning from position i
sub_span(s, A, B, tail, i) ==
    LET starts == {a \in i..Len(s) : span_end(s, a, A, B, tail) # 0}
    IN  IF starts = {} THEN Rest(s, i)
        ELSE LET a == SetMin(starts)
             IN  SubSeq(s, i, a - 1) \o sub_span(s, A, B, tail, span_end(s, a, A, B, tail))

\* The first position at or after i that holds no newline
run_end(s, i) ==
    SetMin({j \in i..(Len(s) + 1) : j = Len(s) + 1 \/ Char(s, j) # "\n"})

RECURSIVE collapse_from(_, _)
collapse_from(s, i) ==
    IF i > Len(s) THEN ""
    ELSE IF Char(s, i) # "\n" THEN Char(s, i) \o collapse_from(s, i + 1)
    ELSE LET e == run_end(s, i)
         IN  (IF e - i >= 3 THEN "\n\n" ELSE SubSeq(s, i, e - 1)) \o collapse_from(s, e)

RECURSIVE collapse_triples_from(_, _)
collapse_triples_from(s, i) ==
    IF i > Len(s) THEN ""
    ELSE IF StartsAt(s, i, "\n\n\n") THEN "\n\n" \o collapse_triples_from(s, i + 3)
    ELSE Char(s, i) \o collapse_triples_from(s, i + 1)

\* The pattern written \n{3} instead of \n{3,}
collapse_exactly_three(s) == collapse_triples_from(s, 1)

\* re.sub(r'\n{3,}', '\n\n', s)
collapse_newlines(s) == collapse_from(s, 1)

clean_content(c) ==
    LET c1 == sub_span(c, "Hyperliquid DocsCtrlk", "Powered by GitBook", FALSE, 1)
        c2 == replace(c1, "On this pageCopy", "")
        c3 == sub_span(c2, "Previous", "Next", TRUE, 1)
        c4 == collapse_newlines(c3)
    IN  strip(c4)

MaxContentPieces == 3
FiveNewlines == "\n\n\n\n\n"
PlainFragments == {"a", "b"}
ContentPieces == PlainFragments \cup
    {"\n", FiveNewlines, " ", chr(11), "On this pageCopy", "Previous", "Next",
     "Hyperliquid DocsCtrlk", "Powered by GitBook"}
Contents == {Concat(ps) : ps \in SeqsUpTo(ContentPieces, MaxContentPieces)}

InitClean ==
    /\ pc = "start"
    /\ content \in Contents
    /\ cleaned = ""
    /\ CategoryIdle /\ TableIdle /\ DocIdle /\ HtmlIdle /\ BatchIdle /\ TextIdle

Clean ==
    /\ pc = "start"
    /\ cleaned' = clean_content(content)
    /\ pc' = "done"
    /\ UNCHANGED <<content, catVars, tableVars, docVars, htmlVars, batchVars, textVars>>

NextClean == Clean

SpecClean == InitClean /\ [][NextClean]_vars

-----------------------------------------------------------------------------
(* Renderer: format_table *)

RECURSIVE repeat(_, _)
\* c * n
repeat(c, n) == IF n <= 0 THEN "" ELSE c \o repeat(c, n - 1)

\* s.ljust(w)
ljust(s, w) == s \o repeat(" ", w - Len(s))

\* What a list index out of range makes of the call
IndexError == "<IndexError>"

cell_in_row_unchecked(col_idx, row) == TRUE

\* if col_idx < len(row):
cell_in_row(col_idx, row) == col_idx < Len(row)

\* The row[col_idx] a call evaluates: those its guard lets through
table_accesses(num_cols, rs) ==
    {<<r, c>> \in (1..Len(rs)) \X (0..(num_cols - 1)) : cell_in_row(c, rs[r])}

col_widths_of(hs, rs) ==
    [c \in 1..Len(hs) |->
        LET lens == {Len(rs[r][c]) : r \in {q \in 1..Len(rs) : cell_in_row(c - 1, rs[q])}}
        IN  IF lens = {} THEN 0 ELSE SetMax(lens)]

format_table(hs, rs) ==
    IF hs = <<>> \/ rs = <<>> THEN ""
    ELSE IF \E a \in table_accesses(Len(hs), rs) : a[2] >= Len(rs[a[1]]) THEN IndexError
    ELSE
    LET col_widths == col_widths_of(hs, rs)
        separator  == "| " \o join("|", [c \in 1..Len(col_widths) |-> repeat("-", col_widths[c])]) \o " |"
        header_row == "| " \o join("|", [c \in 1..Len(col_widths) |-> ljust(hs[c], col_widths[c])]) \o " |"
        data_rows  == [r \in 1..Len(rs) |->
                         "| " \o join("|", [c \in 1..Len(col_widths) |->
                                              IF cell_in_row(c - 1, rs[r])
                                              THEN ljust(rs[r][c], col_widths[c])
                                              ELSE ""]) \o " |"]
    IN  join("\n", <<header_row, separator>> \o data_rows) \o "\n"

MaxCols == 2
MaxRows == 2
HeaderTexts == {"H", "Name"}
CellTexts == {"a", "bb"}

InitTable ==
    /\ pc = "start"
    /\ headers \in SeqsUpTo(HeaderTexts, MaxCols)
    /\ rows \in SeqsUpTo(SeqsUpTo(CellTexts, MaxCols), MaxRows)
    /\ table_md = ""
    /\ CategoryIdle /\ CleanIdle /\ DocIdle /\ HtmlIdle /\ BatchIdle /\ TextIdle

FormatTable ==
    /\ pc = "start"
    /\ table_md' = format_table(headers, rows)
    /\ pc' = "done"
    /\ UNCHANGED <<headers, rows, catVars, cleanVars, docVars, htmlVars, batchVars, textVars>>

NextTable == FormatTable

SpecTable == InitTable /\ [][NextTable]_vars

-----------------------------------------------------------------------------
(* Python string order, str.lower, sorted *)

UpperCase == "ABCDEFGHIJKLMNOPQRSTUVWXYZÀÁÂÃÄÅÆÇÈÉÊËÌÍÎÏÐÑÒÓÔÕÖØÙÚÛÜÝÞ"
LowerCase == "abcdefghijklmnopqrstuvwxyzàáâãäåæçèéêëìíîïðñòóôõöøùúûüýþ"

\* a < b for str: code point order, a proper prefix first
str_lt(a, b) ==
    LET d == SetMin({i \in 1..(Len(a) + 1) : i > Len(a) \/ i > Len(b) \/ Char(a, i) # Char(b, i)})
    IN  IF d > Len(b) THEN FALSE
        ELSE IF d > Len(a) THEN TRUE
        ELSE Ord(Char(a, d)) < Ord(Char(b, d))

lower_char(c) ==
    LET k == find(UpperCase, c, 1) IN IF k = 0 THEN c ELSE Char(LowerCase, k)

RECURSIVE lower_range(_, _, _)
lower_range(s, a, b) ==
    IF a > b THEN ""
    ELSE IF a = b THEN lower_char(Char(s, a))
    ELSE LET m == (a + b) \div 2
         IN  lower_range(s, a, m) \o lower_range(s, m + 1, b)

\* s.lower()
lower(s) == lower_range(s, 1, Len(s))

RECURSIVE sorted_pairs(_)
\* sorted(ps, key=lambda p: p[0]) for pairs <<key, value>>: stable
sorted_pairs(ps) ==
    IF ps = <<>> THEN <<>>
    ELSE LET init  == sorted_pairs(SubSeq(ps, 1, Len(ps) - 1))
             x     == ps[Len(ps)]
             later == {i \in 1..Len(init) : str_lt(x[1], init[i][1])}
             k     == IF later = {} THEN Len(init) + 1 ELSE SetMin(later)
         IN  SubSeq(init, 1, k - 1) \o <<x>> \o SubSeq(init, k, Len(init))

RECURSIVE Flatten(_)
Flatten(ss) == IF ss = <<>> THEN <<>> ELSE Head(ss) \o Flatten(Tail(ss))

-----------------------------------------------------------------------------
(* Renderer: generate_toc, process_page, generate_documentation *)

CodeFence == Backtick \o Backtick \o Backtick

TitleSuffix == " | Hyperliquid Docs"

\* page['title'].replace(' | Hyperliquid Docs', '').strip()
clean_title(t) == strip(replace(t, TitleSuffix, ""))

RECURSIVE group_pages(_)
\* The defaultdict categories, as its items() in insertion order
group_pages(ps) ==
    IF ps = <<>> THEN <<>>
    ELSE LET g   == group_pages(SubSeq(ps, 1, Len(ps) - 1))
             p   == ps[Len(ps)]
             c   == get_page_category(p.url)
             hit == {i \in 1..Len(g) : g[i][1] = c}
         IN  IF hit = {} THEN Append(g, <<c, <<p>>>>)
             ELSE [g EXCEPT ![SetMin(hit)] = <<c, Append(@[2], p)>>]

\* sorted(categories.items()) without the 'Other' item the loops skip
shown_categories(ps) ==
    SelectSeq(sorted_pairs(group_pages(ps)), LAMBDA item : item[1] # "Other")

doc_sort_key_url(page) == page.url

toc_sort_key_cleaned(page) == clean_title(page.title)

\* key=lambda p: p['title'] of generate_toc
toc_sort_key(page) == page.title

\* key=lambda p: p['title'] of generate_documentation
doc_sort_key(page) == page.title

toc_sorted(pages_list) ==
    LET s == sorted_pairs([i \in 1..Len(pages_list) |-> <<toc_sort_key(pages_list[i]), pages_list[i]>>])
    IN  [i \in 1..Len(s) |-> s[i][2]]

doc_sorted(pages_list) ==
    LET s == sorted_pairs([i \in 1..Len(pages_list) |-> <<doc_sort_key(pages_list[i]), pages_list[i]>>])
    IN  [i \in 1..Len(s) |-> s[i][2]]

toc_entry(page) ==
    LET title == clean_title(page.title)
    IN  "- [" \o title \o "](#" \o replace(lower(title), " ", "-") \o ")"

\* The list toc_lines of generate_toc
generate_toc_lines(ps) ==
    LET items == shown_categories(ps)
    IN  <<"# Table of Contents\n">> \o
        Flatten([k \in 1..Len(items) |->
            <<"\n## " \o items[k][1] \o "\n">> \o
            LET srt == toc_sorted(items[k][2])
            IN  [i \in 1..Len(srt) |-> toc_entry(srt[i])]])

generate_toc(ps) == join("\n", generate_toc_lines(ps))

\* if table.get('headers') and table.get('rows'):
renders_table(table) == table.headers # <<>> /\ table.rows # <<>>

\* What the table loop of process_page appends
process_page_tables(ts) ==
    LET shown == SelectSeq(ts, renders_table)
    IN  [i \in 1..Len(shown) |-> format_table(shown[i].headers, shown[i].rows)]

process_page(page) ==
    LET body  == clean_content(page.content)
        title == clean_title(page.title)
        secs  == [i \in 1..Len(page.sections) |->
                    "\n" \o repeat("#", page.sections[i].level) \o " "
                         \o page.sections[i].title \o "\n"]
        codes == [i \in 1..Len(page.codeBlocks) |->
                    "\n" \o CodeFence \o page.codeBlocks[i].language \o "\n"
                            \o page.codeBlocks[i].code \o "\n" \o CodeFence \o "\n"]
    IN  join("\n", <<"\n# " \o title \o "\n">> \o secs
                   \o (IF body # "" THEN <<"\n" \o body \o "\n">> ELSE <<>>)
                   \o codes \o process_page_tables(page.tables))

\* What the category loop of generate_documentation appends
documentation_body(ps) ==
    LET items == shown_categories(ps)
    IN  Flatten([k \in 1..Len(items) |->
            <<"\n## " \o items[k][1] \o "\n">> \o
            LET srt == doc_sorted(items[k][2])
            IN  Flatten([i \in 1..Len(srt) |->
                    << "\n### " \o clean_title(srt[i].title) \o "\n",
                       "\n**Source:** " \o srt[i].url \o "\n",
                       process_page(srt[i]),
                       "\n---\n" >>])])

\* The list md_lines of generate_documentation
generate_documentation_lines(data) ==
    << "# Hyperliquid Complete Documentation\n",
       "\n> Extracted from https://hyperliquid.gitbook.io/hyperliquid-docs\n",
       "\n> Extracted at: " \o data.extractedAt \o "\n",
       "\n> Total pages: " \o ToString(Len(data.pages)) \o "\n",
       "\n---\n",
       generate_toc(data.pages),
       "\n---\n" >>
    \o documentation_body(data.pages)
    \o << "\n---\n",
          "\n*Documentation generated from extracted data*\n",
          "*All content preserved from original source*\n" >>

generate_documentation(data) == join("\n", generate_documentation_lines(data))

MaxPages == 2
DocUrls == {base_url \o "/trading/fees", base_url \o "/hyperevm/tools",
            base_url \o "/trading"}
DocTitles == {"A" \o TitleSuffix, "A x" \o TitleSuffix, "B" \o TitleSuffix, "B"}
DocPages ==
    {[url |-> u, title |-> t, content |-> "Text\n\n\n\nMore",
      sections |-> <<[level |-> 2, title |-> "S"]>>,
      codeBlocks |-> <<[language |-> "python", code |-> "x = 1"]>>,
      tables |-> <<[headers |-> <<"H">>, rows |-> << <<"a">> >>]>>] :
        u \in DocUrls, t \in DocTitles}
ExtractedAt == "2025-01-01T00:00:00Z"

InitDoc ==
    /\ pc = "start"
    /\ pages \in SeqsUpTo(DocPages, MaxPages)
    /\ toc_lines = <<>>
    /\ md_lines = <<>>
    /\ CategoryIdle /\ CleanIdle /\ TableIdle /\ HtmlIdle /\ BatchIdle /\ TextIdle

GenerateDocumentation ==
    /\ pc = "start"
    /\ toc_lines' = generate_toc_lines(pages)
    /\ md_lines' = generate_documentation_lines([pages |-> pages, extractedAt |-> ExtractedAt])
    /\ pc' = "done"
    /\ UNCHANGED <<pages, catVars, cleanVars, tableVars, htmlVars, batchVars, textVars>>

NextDoc == GenerateDocumentation

SpecDoc == InitDoc /\ [][NextDoc]_vars

-----------------------------------------------------------------------------
(* Extractor: the regular expressions of process_docs.py *)

\* Letter case is ignored (re.IGNORECASE): a pattern's literals are written in
\* lower case and sought in ls, the lower-cased text.

\* Whether one of the literals lits stands at position i
lit_at(ls, i, lits) == \E l \in lits : StartsAt(ls, i, l)

lit_len(ls, i, lits) == Len(CHOOSE l \in lits : StartsAt(ls, i, l))

\* The first position at or after i where one of lits stands, 0 for none
find_lit(ls, i, lits) ==
    LET hits == {find(ls, l, i) : l \in lits} \ {0}
    IN  IF hits = {} THEN 0 ELSE SetMin(hits)

NoMatch == [ok |-> FALSE, open |-> "", group |-> "", end |-> 0]

\* A match, at position i exactly, of the pattern
\*     OPEN [^>]* > (.*?) CLOSE        (attrs)
\*     OPEN (.*?) CLOSE                (otherwise)
\* where OPEN is one of opens and CLOSE one of closes.  [^>]* stops at the
\* first '>'; the lazy group ends at the first CLOSE; without re.DOTALL the
\* group cannot hold a newline.
elem_match(s, ls, i, opens, attrs, closes, dotall) ==
    IF ~lit_at(ls, i, opens) THEN NoMatch
    ELSE LET after == i + lit_len(ls, i, opens)
             gt    == IF attrs THEN find(s, ">", after) ELSE after - 1
         IN  IF attrs /\ gt = 0 THEN NoMatch
             ELSE LET k  == find_lit(ls, gt + 1, closes)
                      nl == find(s, "\n", gt + 1)
                  IN  IF k = 0 \/ (~dotall /\ nl # 0 /\ nl < k) THEN NoMatch
                      ELSE [ok    |-> TRUE,
                            open  |-> SubSeq(ls, i, after - 1),
                            group |-> SubSeq(s, gt + 1, k - 1),
                            end   |-> k + lit_len(ls, k, closes)]

RECURSIVE find_elems(_, _, _, _, _, _, _)
\* The matches of that pattern from position i on, in order
find_elems(s, ls, i, opens, attrs, closes, dotall) ==
    LET starts == {a \in i..Len(s) : elem_match(s, ls, a, opens, attrs, closes, dotall).ok}
    IN  IF starts = {} THEN <<>>
        ELSE LET m == elem_match(s, ls, SetMin(starts), opens, attrs, closes, dotall)
             IN  <<m>> \o find_elems(s, ls, m.end, opens, attrs, closes, dotall)

\* re.finditer(pattern, s, re.IGNORECASE [| re.DOTALL])
finditer(s, opens, attrs, closes, dotall) ==
    find_elems(s, lower(s), 1, opens, attrs, closes, dotall)

RECURSIVE strip_tags_from(_, _)
strip_tags_from(s, i) ==
    LET lt == find(s, "<", i)
        gt == IF lt = 0 THEN 0 ELSE find(s, ">", lt + 1)
    IN  IF lt = 0 \/ gt = 0 THEN Rest(s, i)
        ELSE IF gt = lt + 1 THEN SubSeq(s, i, lt) \o strip_tags_from(s, lt + 1)
        ELSE SubSeq(s, i, lt - 1) \o strip_tags_from(s, gt + 1)

\* re.sub(r"<[^>]+>", "", s)
strip_tags(s) == strip_tags_from(s, 1)

-----------------------------------------------------------------------------
(* Extractor: extract_sections *)

\* The character U+0001.  The pattern of extract_sections ends in the four
\* characters  < / h U+0001  and '>': the source holds that control character
\* where a back-reference to the level would stand.
SOH == chr(1)

HeadingOpens == {"<h1", "<h2", "<h3", "<h4", "<h5", "<h6"}
HeadingClose == "</h" \o SOH \o ">"

extract_sections(h) ==
    LET ms == finditer(h, HeadingOpens, TRUE, {HeadingClose}, TRUE)
    IN  [i \in 1..Len(ms) |->
            [level |-> find("123456", Char(ms[i].open, 3), 1),
             title |-> strip(strip_tags(ms[i].group))]]

-----------------------------------------------------------------------------
(* Extractor: extract_code_blocks *)

\* What a statement that does not compile makes of a use of it
SyntaxError == "<SyntaxError>"

\* The def statement of lines 49-64 does not compile: line 58 reads
\*     code = code.replace(""", '"').replace("'", "'").strip()
\* where """ opens a string literal that is never closed.  The function has
\* no body to run; a use of it gives SyntaxError, whatever the document.
extract_code_blocks(h) == SyntaxError

-----------------------------------------------------------------------------
(* Extractor: extract_tables, extract_title *)

cell_texts(h, opens, closes) ==
    LET ms == finditer(h, opens, TRUE, closes, FALSE)
    IN  [i \in 1..Len(ms) |-> strip(strip_tags(ms[i].group))]

\* The dict of one <table> match, kept or not
table_of(table_html) ==
    LET heads    == finditer(table_html, {"<thead"}, TRUE, {"</thead>"}, TRUE)
        hs       == IF heads = <<>> THEN <<>>
                    ELSE cell_texts(heads[1].group, {"<th"}, {"</th>"})
        bodies   == finditer(table_html, {"<tbody"}, TRUE, {"</tbody>"}, TRUE)
        row_html == IF bodies = <<>> THEN table_html ELSE bodies[1].group
        trs      == finditer(row_html, {"<tr"}, TRUE, {"</tr>"}, TRUE)
        all_rows == [i \in 1..Len(trs) |->
                        cell_texts(trs[i].group, {"<td", "<th"}, {"</td>", "</th>"})]
    IN  [headers |-> hs, rows |-> SelectSeq(all_rows, LAMBDA row : row # <<>>)]

\* if headers or rows:
keeps_table(table) == table.headers # <<>> \/ table.rows # <<>>

extract_tables(h) ==
    LET ms == finditer(h, {"<table"}, TRUE, {"</table>"}, TRUE)
    IN  SelectSeq([i \in 1..Len(ms) |-> table_of(ms[i].group)], keeps_table)

extract_title(h) ==
    LET ms == finditer(h, {"<title>"}, FALSE, {"</title>"}, FALSE)
    IN  IF ms = <<>> THEN "Untitled" ELSE strip(strip_tags(ms[1].group))

-----------------------------------------------------------------------------
(* Extractor: TextExtractor *)

\* A TextExtractor after __init__
NewParser == [text |-> <<>>, in_script |-> FALSE, in_style |-> FALSE]

handle_starttag(p, tag) ==
    IF tag = "script" THEN [p EXCEPT !.in_script = TRUE]
    ELSE IF tag = "style" THEN [p EXCEPT !.in_style = TRUE]
    ELSE p

handle_endtag(p, tag) ==
    IF tag = "script" THEN [p EXCEPT !.in_script = FALSE]
    ELSE IF tag = "style" THEN [p EXCEPT !.in_style = FALSE]
    ELSE p

handle_data_unless_script(p, data) ==
    IF ~p.in_script THEN [p EXCEPT !.text = Append(@, data)] ELSE p

handle_data(p, data) ==
    IF ~p.in_script /\ ~p.in_style THEN [p EXCEPT !.text = Append(@, data)] ELSE p

get_text(p) == strip(join(" ", p.text))

StartTag(tag) == [kind |-> "starttag", arg |-> tag]
EndTag(tag)   == [kind |-> "endtag", arg |-> tag]
Data(d)       == [kind |-> "data", arg |-> d]

handle(p, ev) ==
    IF ev.kind = "starttag" THEN handle_starttag(p, ev.arg)
    ELSE IF ev.kind = "endtag" THEN handle_endtag(p, ev.arg)
    ELSE handle_data(p, ev.arg)

MaxEvents == 4
Tags == {"script", "style", "p"}
Fragments == {"a", "b"}

InitText ==
    /\ pc = "feeding"
    /\ text = NewParser.text
    /\ in_script = NewParser.in_script
    /\ in_style = NewParser.in_style
    /\ fed = <<>>
    /\ result = ""
    /\ CategoryIdle /\ CleanIdle /\ TableIdle /\ DocIdle /\ HtmlIdle /\ BatchIdle

Parser == [text |-> text, in_script |-> in_script, in_style |-> in_style]

Deliver(ev) ==
    /\ pc = "feeding"
    /\ Len(fed) < MaxEvents
    /\ fed' = Append(fed, ev)
    /\ text' = handle(Parser, ev).text
    /\ in_script' = handle(Parser, ev).in_script
    /\ in_style' = handle(Parser, ev).in_style
    /\ UNCHANGED <<pc, result, catVars, cleanVars, tableVars, docVars, htmlVars, batchVars>>

HandleStartTag == \E tag \in Tags : Deliver(StartTag(tag))

HandleEndTag == \E tag \in Tags : Deliver(EndTag(tag))

HandleData == \E d \in Fragments : Deliver(Data(d))

GetText ==
    /\ pc = "feeding"
    /\ result' = get_text(Parser)
    /\ pc' = "done"
    /\ UNCHANGED <<text, in_script, in_style, fed, catVars, cleanVars, tableVars, docVars, htmlVars, batchVars>>

NextText == HandleStartTag \/ HandleEndTag \/ HandleData \/ GetText

SpecText == InitText /\ [][NextText]_vars

-----------------------------------------------------------------------------
(* Extractor: the script run as a whole (python3 process_docs.py) *)

\* The names of the files of temp_dir
FileNames == {"index.html", "trading_fees.html", "notes.txt", "page.html.bak", ".html", "html"}

MaxFiles == 3

\* The run before its first statement: temp_dir holds the files of listing
InitBatch ==
    /\ pc = "start"
    /\ listing \in {l \in SeqsUpTo(FileNames, MaxFiles) :
                      \A i, j \in 1..Len(l) : l[i] = l[j] => i = j}
    /\ pos = 0
    /\ out_pages = <<>>
    /\ output = <<>>
    /\ CategoryIdle /\ CleanIdle /\ TableIdle /\ DocIdle /\ HtmlIdle /\ TextIdle

\* Python compiles the whole file before it runs any statement of it.  The
\* literal opened on line 58 is never closed, so the run ends in SyntaxError
\* before pages = [] (line 114): no name of the listing is taken (lines
\* 118-145), no output is made (lines 148-153), whatever temp_dir holds.
RunScript ==
    /\ pc = "start"
    /\ extract_code_blocks("") = SyntaxError
    /\ pc' = "raised"
    /\ UNCHANGED <<listing, pos, out_pages, output,
                   catVars, cleanVars, tableVars, docVars, htmlVars, textVars>>

NextBatch == RunScript

SpecBatch == InitBatch /\ [][NextBatch]_vars

-----------------------------------------------------------------------------
(* Extractor: the extract_* functions on documents *)

MaxHeadings == 3

\* Headings that are well formed, <hN ...>text</hN>, or lack the closing tag,
\* and other markup; each with the {level, title} entries it stands for
WellFormedElems ==
    { <<"<h1>Intro</h1>", <<[level |-> 1, title |-> "Intro"]>> >>,
      <<"<h2 id=\"a\"> Fees <b>now</b> </h2>", <<[level |-> 2, title |-> "Fees now"]>> >>,
      <<"<H6>Caps</H6>", <<[level |-> 6, title |-> "Caps"]>> >>,
      <<"<h4>Open", <<>> >>,
      <<"<p>text</p>", <<>> >> }

\* A heading closed by the characters the pattern of the source asks for
OddElems == { <<"<h5>Odd</h" \o SOH \o ">", <<[level |-> 5, title |-> "Odd"]>> >> }

HeadingDocs ==
    {Concat([i \in 1..Len(parts) |-> parts[i][1]]) :
        parts \in SeqsUpTo(WellFormedElems \cup OddElems, MaxHeadings)}

InitSections ==
    /\ pc = "start"
    /\ html \in HeadingDocs
    /\ sections = <<>> /\ code_blocks = <<>> /\ tables = <<>> /\ page_md = ""
    /\ CategoryIdle /\ CleanIdle /\ TableIdle /\ DocIdle /\ BatchIdle /\ TextIdle

ExtractSections ==
    /\ pc = "start"
    /\ sections' = extract_sections(html)
    /\ pc' = "done"
    /\ UNCHANGED <<html, code_blocks, tables, page_md,
                   catVars, cleanVars, tableVars, docVars, batchVars, textVars>>

NextSections == ExtractSections

SpecSections == InitSections /\ [][NextSections]_vars

MaxCodePieces == 2
CodePieces == {"&lt;", "&gt;", "&amp;", "&quot;", "&#39;", "x", " ", "lt;"}
CodeBodies == {Concat(ps) : ps \in SeqsUpTo(CodePieces, MaxCodePieces)} \cup {"x &lt;&gt; y"}
PythonOpen == "<pre><code class=\"language-python\">"
CodeClose == "</code></pre>"
CodeWrappers ==
    { <<PythonOpen, CodeClose>>,
      <<"<PRE class=\"a\"><code id=\"b\" class=\"language-js\" data-x=\"1\">", "</CODE></PRE>">>,
      <<"<pre><code>", "</code></pre>">> }

InitCode ==
    /\ pc = "start"
    /\ html \in {w[1] \o body \o w[2] : w \in CodeWrappers, body \in CodeBodies}
    /\ sections = <<>> /\ code_blocks = <<>> /\ tables = <<>> /\ page_md = ""
    /\ CategoryIdle /\ CleanIdle /\ TableIdle /\ DocIdle /\ BatchIdle /\ TextIdle

\* One call: it ends in the error, no list is returned
ExtractCodeBlocks ==
    /\ pc = "start"
    /\ extract_code_blocks(html) = SyntaxError
    /\ pc' = "raised"
    /\ UNCHANGED <<html, sections, code_blocks, tables, page_md,
                   catVars, cleanVars, tableVars, docVars, batchVars, textVars>>

NextCode == ExtractCodeBlocks

SpecCode == InitCode /\ [][NextCode]_vars

MaxTables == 2
TheadSrcs == {"", "<thead><tr><th>H</th></tr></thead>"}
RowSrcs == {"", "<tr></tr>", "<tr><td>a</td></tr>", "<tr><td>a</td><td>b</td></tr>"}
TableSrcs ==
    {"<table>" \o th \o r \o "</table>" : th \in TheadSrcs, r \in RowSrcs}
    \cup {"<table>" \o th \o "<tbody>" \o r \o "</tbody></table>" : th \in TheadSrcs, r \in RowSrcs}

InitTables ==
    /\ pc = "start"
    /\ html \in {Concat(ts) : ts \in SeqsUpTo(TableSrcs, MaxTables)}
    /\ sections = <<>> /\ code_blocks = <<>> /\ tables = <<>> /\ page_md = ""
    /\ CategoryIdle /\ CleanIdle /\ TableIdle /\ DocIdle /\ BatchIdle /\ TextIdle

ExtractTables ==
    /\ pc = "start"
    /\ tables' = extract_tables(html)
    /\ pc' = "extracted"
    /\ UNCHANGED <<html, sections, code_blocks, page_md,
                   catVars, cleanVars, tableVars, docVars, batchVars, textVars>>

\* The Renderer's process_page on a PageRecord that holds the title, the
\* sections and the tables of the document
ProcessPage ==
    /\ pc = "extracted"
    /\ page_md' = process_page([url        |-> base_url,
                                title      |-> extract_title(html),
                                content    |-> "",
                                sections   |-> extract_sections(html),
                                codeBlocks |-> <<>>,
                                tables     |-> tables])
    /\ pc' = "rendered"
    /\ UNCHANGED <<html, sections, code_blocks, tables,
                   catVars, cleanVars, tableVars, docVars, batchVars, textVars>>

NextTables == ExtractTables \/ ProcessPage

SpecTables == InitTables /\ [][NextTables]_vars

-----------------------------------------------------------------------------
(* Claims *)

\* No marker is a substring of a marker that is tested after it
C1_MostSpecificFirst ==
    \A i, j \in 1..Len(Markers) : i < j => ~Contains(Markers[j][1], Markers[i][1])

\* C1 (as stated): a URL is labelled by the first marker that occurs in it,
\* no marker is a substring of a marker tested after it, so a URL containing
\* '/for-developers/hyperevm/' is labelled 'HyperEVM for Developers', and a
\* URL with no marker is labelled 'Other'.
C1_Claim ==
    pc = "done" =>
        /\ (\A k \in 1..Len(Markers) : ~Contains(url, Markers[k][1])) => category = "Other"
        /\ \A k \in 1..Len(Markers) :
             (/\ Contains(url, Markers[k][1])
              /\ \A i \in 1..(k - 1) : ~Contains(url, Markers[i][1])) => category = Markers[k][2]
        /\ Contains(url, "/for-developers/hyperevm/") =>
             (C1_MostSpecificFirst /\ category = "HyperEVM for Developers")

\* C7: the output of clean_content holds no run of three or more newlines and
\* no leading or trailing whitespace, and five newlines between two text
\* fragments come out as exactly two.
C7_CleanContent ==
    pc = "done" =>
        /\ ~Contains(cleaned, "\n\n\n")
        /\ cleaned # "" => (Char(cleaned, 1) \notin Whitespace
                            /\ Char(cleaned, Len(cleaned)) \notin Whitespace)
        /\ \A x, y \in PlainFragments :
             content = x \o FiveNewlines \o y => cleaned = x \o "\n\n" \o y

\* Five newlines between two fragments, cleaned
C7_Witness ==
    pc = "done" /\ content = "a" \o FiveNewlines \o "b" /\ cleaned = "a\n\nb"

RECURSIVE split_from(_, _, _)
split_from(s, sep, i) ==
    LET k == find(s, sep, i)
    IN  IF k = 0 THEN <<Rest(s, i)>>
        ELSE <<SubSeq(s, i, k - 1)>> \o split_from(s, sep, k + Len(sep))

\* s.split(sep)
split(s, sep) == split_from(s, sep, 1)

\* The cells of one rendered line "| c1|c2|...|cn |"
LineCells(line) == split(SubSeq(line, 3, Len(line) - 2), "|")

\* The rendered lines of a table block (it ends with a newline)
TableLines(block) == split(SubSeq(block, 1, Len(block) - 1), "\n")

\* C5: format_table never raises; when it renders (headers and rows both
\* non-empty) there is one line for the headers, one separator and one line
\* per row, every line has as many cells as there are headers, and the cells
\* a short row lacks are blank.
C5_FormatTable ==
    pc = "done" =>
        /\ table_md # IndexError
        /\ (headers # <<>> /\ rows # <<>>) =>
             LET lines == TableLines(table_md)
             IN  /\ Len(lines) = 2 + Len(rows)
                 /\ \A l \in 1..Len(lines) :
                      /\ StartsAt(lines[l], 1, "| ")
                      /\ endswith(lines[l], " |")
                      /\ Len(LineCells(lines[l])) = Len(headers)
                 /\ \A r \in 1..Len(rows) : \A c \in 1..Len(headers) :
                      LineCells(lines[2 + r])[c] =
                          IF c <= Len(rows[r])
                          THEN rows[r][c] \o repeat(" ", Len(LineCells(lines[2])[c]) - Len(rows[r][c]))
                          ELSE ""

\* Two headers and a row of one cell
C5_Witness ==
    /\ pc = "done"
    /\ headers = <<"H", "Name">>
    /\ rows = << <<"a">> >>
    /\ table_md = "| H|Name |\n| -| |\n| a| |\n"

RECURSIVE toc_entries(_, _)
\* The entries of a table of contents, each with the category heading it
\* stands under: <<category, link text>>, in the order of the lines
toc_entries(lines, cat) ==
    IF lines = <<>> THEN <<>>
    ELSE LET l == Head(lines)
         IN  IF StartsAt(l, 1, "\n## ")
             THEN toc_entries(Tail(lines), SubSeq(l, 5, Len(l) - 1))
             ELSE IF StartsAt(l, 1, "- [")
             THEN << <<cat, SubSeq(l, 4, find(l, "](#", 1) - 1)>> >> \o toc_entries(Tail(lines), cat)
             ELSE toc_entries(Tail(lines), cat)

\* How often x occurs in the sequence s
Count(s, x) == Cardinality({i \in 1..Len(s) : s[i] = x})

\* The pages that are not 'Other', in input order
ShownPages(ps) == SelectSeq(ps, LAMBDA p : get_page_category(p.url) # "Other")

\* C2 (as stated): the table of contents holds exactly one entry per page that
\* is not 'Other', under its category heading; the headings are in
\* lexicographic order; under one heading the link texts of consecutive
\* entries are non-decreasing.
C2_Claim ==
    pc = "done" =>
        LET es   == toc_entries(toc_lines, "")
            want == [i \in 1..Len(ShownPages(pages)) |->
                        <<get_page_category(ShownPages(pages)[i].url),
                          clean_title(ShownPages(pages)[i].title)>>]
        IN  /\ Len(es) = Len(want)
            /\ \A i \in 1..Len(es) : Count(es, es[i]) = Count(want, es[i])
            /\ \A i \in 1..(Len(es) - 1) :
                 \/ str_lt(es[i][1], es[i + 1][1])
                 \/ es[i][1] = es[i + 1][1] /\ ~str_lt(es[i + 1][2], es[i][2])

\* The lines between the table of contents and the footer
BodyLines(lines) == SubSeq(lines, 8, Len(lines) - 3)

RECURSIVE body_sections(_, _)
\* The page sections of the body, each with the category heading it stands
\* under.  A page section is four lines: heading, source line, page, separator.
body_sections(lines, cat) ==
    IF lines = <<>> THEN <<>>
    ELSE LET l == Head(lines)
         IN  IF StartsAt(l, 1, "\n## ")
             THEN body_sections(Tail(lines), SubSeq(l, 5, Len(l) - 1))
             ELSE IF StartsAt(l, 1, "\n### ") /\ Len(lines) >= 4
             THEN << [category |-> cat,
                      title    |-> SubSeq(l, 6, Len(l) - 1),
                      source   |-> lines[2],
                      rendered |-> lines[3],
                      closing  |-> lines[4]] >>
                  \o body_sections(SubSeq(lines, 5, Len(lines)), cat)
             ELSE << [category |-> cat, title |-> "", source |-> "", rendered |-> l,
                      closing |-> "stray line"] >>
                  \o body_sections(Tail(lines), cat)

ExpectedSection(p) ==
    [category |-> get_page_category(p.url),
     title    |-> clean_title(p.title),
     source   |-> "\n**Source:** " \o p.url \o "\n",
     rendered |-> process_page(p),
     closing  |-> "\n---\n"]

\* C3: the body holds exactly one page section (heading, source line,
\* rendered page, separator) per page that is not 'Other' and none for an
\* 'Other' page, and its (category, page) sequence is that of the entries of
\* the table of contents.
C3_BodyMatchesToc ==
    pc = "done" =>
        LET secs == body_sections(BodyLines(md_lines), "")
            want == [i \in 1..Len(ShownPages(pages)) |-> ExpectedSection(ShownPages(pages)[i])]
        IN  /\ md_lines[6] = join("\n", toc_lines)
            /\ Len(secs) = Len(want)
            /\ \A i \in 1..Len(secs) : Count(secs, secs[i]) = Count(want, secs[i])
            /\ [i \in 1..Len(secs) |-> <<secs[i].category, secs[i].title>>]
                 = toc_entries(toc_lines, "")

\* Two pages of one category whose input order is not their output order
C3_Witness ==
    /\ pc = "done"
    /\ Len(pages) = 2
    /\ get_page_category(pages[1].url) = get_page_category(pages[2].url)
    /\ get_page_category(pages[1].url) # "Other"
    /\ str_lt(pages[2].title, pages[1].title)
    /\ Len(body_sections(BodyLines(md_lines), "")) = 2
    /\ body_sections(BodyLines(md_lines), "")[1].title = clean_title(pages[2].title)

\* The orders in which n things can be listed
Orders(n) == {f \in [1..n -> 1..n] : \A i, j \in 1..n : f[i] = f[j] => i = j}

\* C2 (amended): the table of contents holds exactly one entry per page that
\* is not 'Other', under its category heading; the headings are in
\* lexicographic order; under one heading the entries are in lexicographic
\* order of the page's stored title, the title before ' | Hyperliquid Docs'
\* is removed from it (the link text is the title after the removal).
C2_TocByStoredTitle ==
    pc = "done" =>
        LET es == toc_entries(toc_lines, "")
            sp == ShownPages(pages)
        IN  /\ Len(es) = Len(sp)
            /\ \E f \in Orders(Len(sp)) :
                 /\ \A i \in 1..Len(sp) :
                      es[i] = <<get_page_category(sp[f[i]].url), clean_title(sp[f[i]].title)>>
                 /\ \A i \in 1..(Len(sp) - 1) :
                      \/ str_lt(es[i][1], es[i + 1][1])
                      \/ /\ es[i][1] = es[i + 1][1]
                         /\ ~str_lt(sp[f[i + 1]].title, sp[f[i]].title)

\* Two pages of one category: the first entry's link text is the greater
C2_Witness ==
    /\ pc = "done"
    /\ Len(toc_entries(toc_lines, "")) = 2
    /\ toc_entries(toc_lines, "")[1] = <<"Trading", "A x">>
    /\ toc_entries(toc_lines, "")[2] = <<"Trading", "A">>

\* The five entities and what each stands for
Entities == { <<"&lt;", "<">>, <<"&gt;", ">">>, <<"&amp;", "&">>,
              <<"&quot;", "\"">>, <<"&#39;", "'">> }

RECURSIVE DecodeOneLevel(_, _)
\* s from position i on with every entity replaced once, in one pass from
\* left to right: what a replacement puts is never read again
DecodeOneLevel(s, i) ==
    IF i > Len(s) THEN ""
    ELSE LET es == {e \in Entities : StartsAt(s, i, e[1])}
         IN  IF es = {} THEN Char(s, i) \o DecodeOneLevel(s, i + 1)
             ELSE LET e == CHOOSE x \in es : TRUE
                  IN  e[2] \o DecodeOneLevel(s, i + Len(e[1]))

\* C4 (as stated): the call returns the blocks, and the code text of a block
\* is its captured text with the entities &lt; &gt; &amp; and the quote
\* entities decoded exactly one level, then trimmed; 'x &lt;&gt; y' in a
\* language-python block gives {language: "python", code: "x <> y"}.
C4_Claim ==
    (pc # "start" /\ StartsAt(html, 1, PythonOpen)) =>
        LET body == SubSeq(html, Len(PythonOpen) + 1, Len(html) - Len(CodeClose))
        IN  /\ pc = "done"
            /\ code_blocks = <<[language |-> "python", code |-> strip(DecodeOneLevel(body, 1))]>>
            /\ body = "x &lt;&gt; y" => code_blocks[1].code = "x <> y"

\* The maximal runs of table lines ("| ...") among the lines of a page
TableBlocks(md) ==
    LET lines == split(md, "\n")
    IN  {i \in 1..Len(lines) :
           /\ StartsAt(lines[i], 1, "| ")
           /\ (i = 1 \/ ~StartsAt(lines[i - 1], 1, "| "))}

\* C6 (as stated): every table extract_tables keeps that has at least one row
\* appears as a table block in the rendered page, and nothing else does.
C6_Claim ==
    pc = "rendered" =>
        Cardinality(TableBlocks(page_md))
            = Cardinality({t \in 1..Len(tables) : tables[t].rows # <<>>})

\* The names of a listing that end in '.html', in order
HtmlNames(l) ==
    SelectSeq(l, LAMBDA f : Len(f) >= 5 /\ SubSeq(f, Len(f) - 4, Len(f)) = ".html")

\* C8 (as stated): for every listing the run appends one PageRecord per name
\* that ends in '.html' and none for another name, and emits a DocumentSet
\* with totalPages = length of pages = number of '.html' names.
C8_Claim ==
    pc # "start" =>
        /\ pc = "done"
        /\ Len(out_pages) = Len(HtmlNames(listing))
        /\ output.pages = out_pages
        /\ output.totalPages = Len(output.pages)
        /\ output.totalPages = Len(HtmlNames(listing))

\* C9 (as stated): for a document of well-formed headings <hN ...>text</hN>,
\* extract_sections gives one {level, title} entry per heading, in document
\* order; a heading with no closing tag gives none.
C9_Claim ==
    pc = "done" =>
        \A parts \in SeqsUpTo(WellFormedElems, MaxHeadings) :
            html = Concat([i \in 1..Len(parts) |-> parts[i][1]])
                => sections = Flatten([i \in 1..Len(parts) |-> parts[i][2]])

\* Whether, when event k arrives, the last start or end tag of the element
\* before it is a start tag
OpenAt(k, tag) ==
    \E j \in 1..(k - 1) :
        /\ fed[j] = StartTag(tag)
        /\ \A m \in (j + 1)..(k - 1) : fed[m] # EndTag(tag)

\* The text events that arrive while neither a script nor a style is open
KeptEvents ==
    {k \in 1..Len(fed) : fed[k].kind = "data" /\ ~OpenAt(k, "script") /\ ~OpenAt(k, "style")}

RECURSIVE InOrder(_)
\* The fragments of a set of events, in arrival order
InOrder(ks) ==
    IF ks = {} THEN <<>> ELSE <<fed[SetMin(ks)].arg>> \o InOrder(ks \ {SetMin(ks)})

\* C10: a text fragment is collected exactly when neither flag is set as it
\* arrives; a flag is set by a start tag of its own element only and cleared
\* by an end tag of its own element only; tags never change the collected
\* text; the kept fragments stay in arrival order.
C10_TextExtractor ==
    /\ in_script = OpenAt(Len(fed) + 1, "script")
    /\ in_style = OpenAt(Len(fed) + 1, "style")
    /\ text = InOrder(KeptEvents)
    /\ pc = "done" => result = strip(join(" ", InOrder(KeptEvents)))

\* Text before, inside and after a style element: the inner fragment is dropped
C10_Witness ==
    /\ fed = <<Data("a"), StartTag("style"), Data("b"), EndTag("style")>>
    /\ text = <<"a">>
    /\ ~in_style

=============================================================================
